---- MODULE Spec2Model ----
(***************************************************************************)
(* Model of the ai_notes note repository (modules/note_crud.py), the       *)
(* counter (modules/db.py), the FAISS vector index                         *)
(* (modules/search_engine.py) and the agent runner (agent_runner.py).      *)
(*                                                                         *)
(* The MongoDB "notes" collection is a function from note ids to note      *)
(* records, the "counters" record {_id: "note_id"} is the integer seq      *)
(* (0 while the record does not exist: find_one_and_update upserts it),    *)
(* and the FAISS IndexIDMap2 is the sequence of its (id, vector) entries   *)
(* in insertion order.                                                     *)
(***************************************************************************)
EXTENDS Integers, Sequences, FiniteSets, TLC

VARIABLES
    notes,           \* db["notes"]: note id -> note record
    seq,             \* db["counters"] {_id: "note_id"}.seq (0: no record yet)
    index,           \* search_engine._index: sequence of [id, vec] entries
    index_modified,  \* search_engine._index_modified
    now,             \* the clock read by datetime.utcnow()
    last,            \* the last call: operation, arguments and outcome
    issued,          \* the ids get_next_note_id has returned, in order
    pc,              \* per concurrent add_note caller: its position
    held,            \* per concurrent add_note caller: its locals
    agents,          \* mcp/agents.json: the rules, in file order
    agentRun,        \* the last run_agents call: its note and what it did
    loaded,          \* search_engine._index is not None
    file,            \* the backing file at INDEX_PATH
    qa_cache,        \* gemini_client._qa_cache: question -> answer
    probe,           \* the last check_trigger call: arguments and result
    mic              \* add_mic_voice: its threads, flag and queue

vars == <<notes, seq, index, index_modified, now, last, issued, pc, held,
          agents, agentRun, loaded, file, qa_cache, probe, mic>>

callerVars == <<pc, held>>
agentVars == <<agents, agentRun>>
otherVars == <<file, qa_cache, probe, mic>>

----------------------------------------------------------------------------
(* Bounds of the model *)

MaxSeq == 2
MaxTime == 1
MaxRules == 2
MaxAgentSeq == 1
MaxEntries == 2
MaxAskSeq == 1
MaxTags == 2
MaxQueue == 3
MaxFrames == 4

(* Inputs *)

(* Tag names and triggers are strings the agent runner takes apart, so     *)
(* they are sequences of characters.                                       *)
ReminderTag == <<"r", "e", "m", "i", "n", "d", "e", "r">>
WorkTag == <<"w", "o", "r", "k">>
NoAudio == ""
NoneTags == <<<<"N", "o", "n", "e">>>>
NoneWorkspace == "None"
NoRet == -1
Callers == {"p", "q"}

(* transcribe_audio(audio_path): the text recognize_google returns. *)
transcribe_audio(audio_path) == "X"

(* get_model().encode(content): the embedding of a text. *)
encode(content) == <<"emb", content>>

----------------------------------------------------------------------------
(* modules/db.py *)

(* Mutant of IncSeq: the update is {"$set": {"seq": 1}}. *)
IncSeq_Set(c) == 1

(* {"$inc": {"seq": 1}} with upsert: a missing record counts as 0. *)
IncSeq(c) == c + 1

(* get_next_note_id: find_one_and_update increments and returns the new    *)
(* value in one atomic database operation.                                 *)
get_next_note_id(c) == [seq |-> IncSeq(c), ret |-> IncSeq(c)]

----------------------------------------------------------------------------
(* modules/search_engine.py *)

(* idx.add_with_ids: IndexIDMap2 appends the pair; it does not look for an *)
(* entry with the same id.                                                 *)
add_with_ids(idx, note_id, vec) == Append(idx, [id |-> note_id, vec |-> vec])

(* idx.remove_ids: drops every entry whose id is note_id. *)
remove_ids(idx, note_id) == SelectSeq(idx, LAMBDA e : e.id # note_id)

(* add_note_to_index: the state of (_index, _index_modified) afterwards;   *)
(* when encode raises, nothing was added and the flag is not set.          *)
add_note_to_index(idx, mod, note_id, content, embedOk) ==
    IF embedOk
    THEN [index |-> add_with_ids(idx, note_id, encode(content)),
          index_modified |-> TRUE, raised |-> FALSE]
    ELSE [index |-> idx, index_modified |-> mod, raised |-> TRUE]

(* Mutant of remove_note_from_index: no entry is removed. *)
remove_note_from_index_keep(idx, mod, note_id) ==
    [index |-> idx, index_modified |-> TRUE]

(* remove_note_from_index *)
remove_note_from_index(idx, mod, note_id) ==
    [index |-> remove_ids(idx, note_id), index_modified |-> TRUE]

(* The ids a search over the whole index can return. *)
IndexIds(idx) == {idx[i].id : i \in 1..Len(idx)}

(* The backing file at INDEX_PATH: absent, or the index written to it. *)
NoFile == [exists |-> FALSE, index |-> <<>>]

(* Mutant of load_index: the file is read again on every call. *)
load_index_reload(ld, idx, mod, f) ==
    [index |-> IF f.exists THEN f.index ELSE <<>>, index_modified |-> FALSE]

(* load_index(): ld says whether _index holds a handle (is not None). The  *)
(* first call reads the file, or creates an empty index when there is no   *)
(* file, and clears the flag; a later call returns the handle held.        *)
load_index(ld, idx, mod, f) ==
    IF ld
    THEN [index |-> idx, index_modified |-> mod]
    ELSE [index |-> IF f.exists THEN f.index ELSE <<>>, index_modified |-> FALSE]

(* save_index(): writes the file when a handle is held and the flag is     *)
(* set, and then clears the flag.                                          *)
save_index(ld, idx, mod, f) ==
    IF ld /\ mod
    THEN [file |-> [exists |-> TRUE, index |-> idx], index_modified |-> FALSE]
    ELSE [file |-> f, index_modified |-> mod]

(* idx.search(query_embedding, k): the ids of the k nearest entries, the   *)
(* entries at distance 0 first; slots FAISS fills with -1 are dropped.     *)
search_similar_notes(idx, query, k) ==
    LET near == SelectSeq(idx, LAMBDA e : e.vec = encode(query))
        far == SelectSeq(idx, LAMBDA e : e.vec # encode(query))
        ranked == near \o far
    IN  [i \in 1..(IF Len(ranked) < k THEN Len(ranked) ELSE k) |-> ranked[i].id]

(* A set of note ids as the list a find() returns them in. *)
FindIds(nts, S) ==
    SelectSeq([i \in 1..(MaxSeq + 1) |-> i], LAMBDA i : i \in S /\ i \in DOMAIN nts)

(* full_text_search(db, query): the notes whose title or content holds the *)
(* word searched for.                                                      *)
full_text_search(nts, query) ==
    FindIds(nts, {i \in DOMAIN nts : nts[i].title = query \/ nts[i].content = query})

----------------------------------------------------------------------------
(* modules/note_crud.py *)

(* Mutant of NewNote: the tags argument is dropped. *)
NewNote_DropTags(title, content, tags, workspace, t) ==
    [title |-> title, content |-> content, tags |-> <<>>,
     workspace |-> workspace, created_at |-> t, updated_at |-> t]

(* The note document add_note builds. *)
NewNote(title, content, tags, workspace, t) ==
    [title |-> title, content |-> content, tags |-> tags,
     workspace |-> workspace, created_at |-> t, updated_at |-> t]

(* db["notes"].insert_one(note): a duplicate _id raises DuplicateKeyError. *)
insert_one(nts, note_id, note) ==
    IF note_id \in DOMAIN nts
    THEN [notes |-> nts, raised |-> TRUE]
    ELSE [notes |-> (note_id :> note) @@ nts, raised |-> FALSE]

(* db["notes"].delete_one({"_id": note_id}) *)
delete_one(nts, note_id) ==
    IF note_id \in DOMAIN nts
    THEN [notes |-> [i \in DOMAIN nts \ {note_id} |-> nts[i]], deleted_count |-> 1]
    ELSE [notes |-> nts, deleted_count |-> 0]

(* {"$set": updates} applied to one document: the named fields take the    *)
(* given values, every other field keeps its value.                        *)
ApplySet(note, updates) ==
    [note EXCEPT
        !.title = IF "title" \in updates.keys THEN updates.title ELSE @,
        !.content = IF "content" \in updates.keys THEN updates.content ELSE @,
        !.tags = IF "tags" \in updates.keys THEN updates.tags ELSE @,
        !.updated_at = IF "updated_at" \in updates.keys THEN updates.updated_at ELSE @]

(* Mutant of update_one: the count is that of the matched documents. *)
update_one_matched(nts, note_id, updates) ==
    IF note_id \in DOMAIN nts
    THEN [notes |-> [nts EXCEPT ![note_id] = ApplySet(nts[note_id], updates)],
          modified_count |-> 1]
    ELSE [notes |-> nts, modified_count |-> 0]

(* db["notes"].update_one({"_id": note_id}, {"$set": updates}):            *)
(* modified_count counts the documents the update actually changed, so it  *)
(* is 0 when no document matches and also when the matched document        *)
(* already holds the given values.                                         *)
update_one(nts, note_id, updates) ==
    IF note_id \in DOMAIN nts /\ ApplySet(nts[note_id], updates) # nts[note_id]
    THEN [notes |-> [nts EXCEPT ![note_id] = ApplySet(nts[note_id], updates)],
          modified_count |-> 1]
    ELSE [notes |-> nts, modified_count |-> 0]

(* The outcome of a call: the state it leaves and what it returned, or,    *)
(* when an exception left it instead, the call that raised (at).           *)
Outcome(nts, c, idx, mod, ret, at) ==
    [notes |-> nts, seq |-> c, index |-> idx, index_modified |-> mod,
     ret |-> ret, raised |-> at # "", at |-> at]

(* Mutant of add_note: the id is allocated before the audio is transcribed. *)
add_note_alloc_first(nts, c, idx, mod, t, title, content, tags, workspace, audio_path, fail) ==
    LET content1 == IF audio_path # NoAudio THEN transcribe_audio(audio_path) ELSE content
        tags1 == IF tags = NoneTags THEN <<>> ELSE tags
        workspace1 == IF workspace = NoneWorkspace THEN "default" ELSE workspace
        nid == get_next_note_id(c)
        note_id == nid.ret
        ins == insert_one(nts, note_id, [title |-> title, content |-> content1,
                   tags |-> tags1, workspace |-> workspace1,
                   created_at |-> t, updated_at |-> t])
        ix == add_note_to_index(idx, mod, note_id, content1, fail # "embed")
    IN  IF audio_path # NoAudio /\ fail = "transcribe"
        THEN Outcome(nts, nid.seq, idx, mod, NoRet, "transcribe")
        ELSE IF fail = "insert" \/ ins.raised
        THEN Outcome(nts, nid.seq, idx, mod, NoRet, "insert")
        ELSE IF ix.raised
        THEN Outcome(ins.notes, nid.seq, idx, mod, NoRet, "embed")
        ELSE Outcome(ins.notes, nid.seq, ix.index, ix.index_modified, note_id, "")

(* add_note(db, title, content, tags, workspace, audio_path) at time t.    *)
(* fail names the external call that raises during this call, if any:      *)
(* "transcribe" (transcribe_audio), "insert" (insert_one), "embed"         *)
(* (encode inside add_note_to_index).                                      *)
add_note(nts, c, idx, mod, t, title, content, tags, workspace, audio_path, fail) ==
    IF audio_path # NoAudio /\ fail = "transcribe"
    THEN Outcome(nts, c, idx, mod, NoRet, "transcribe")
    ELSE
    LET content1 == IF audio_path # NoAudio THEN transcribe_audio(audio_path) ELSE content
        tags1 == IF tags = NoneTags THEN <<>> ELSE tags
        workspace1 == IF workspace = NoneWorkspace THEN "default" ELSE workspace
        nid == get_next_note_id(c)
        note_id == nid.ret
        ins == insert_one(nts, note_id, NewNote(title, content1, tags1, workspace1, t))
        ix == add_note_to_index(idx, mod, note_id, content1, fail # "embed")
    IN  IF fail = "insert" \/ ins.raised
        THEN Outcome(nts, nid.seq, idx, mod, NoRet, "insert")
        ELSE IF ix.raised
        THEN Outcome(ins.notes, nid.seq, idx, mod, NoRet, "embed")
        ELSE Outcome(ins.notes, nid.seq, ix.index, ix.index_modified, note_id, "")

(* list_notes(db, {}): the ids of all notes. *)
list_notes(nts) == DOMAIN nts

(* Mutant of delete_note: the index entry is removed whatever was deleted. *)
delete_note_always_remove(nts, c, idx, mod, note_id, fail) ==
    IF fail = "delete"
    THEN Outcome(nts, c, idx, mod, NoRet, "delete")
    ELSE
    LET result == delete_one(nts, note_id)
        rm == remove_note_from_index(idx, mod, note_id)
    IN  Outcome(result.notes, c, rm.index, rm.index_modified, result.deleted_count, "")

(* delete_note(db, note_id); fail = "delete": delete_one raises. *)
delete_note(nts, c, idx, mod, note_id, fail) ==
    IF fail = "delete"
    THEN Outcome(nts, c, idx, mod, NoRet, "delete")
    ELSE
    LET result == delete_one(nts, note_id)
        rm == remove_note_from_index(idx, mod, note_id)
    IN  IF result.deleted_count # 0
        THEN Outcome(result.notes, c, rm.index, rm.index_modified, result.deleted_count, "")
        ELSE Outcome(result.notes, c, idx, mod, result.deleted_count, "")

(* Mutant of edit_note: new content is indexed whatever was modified. *)
edit_note_always_index(nts, c, idx, mod, note_id, updates, fail) ==
    LET rm == IF "content" \in updates.keys
              THEN remove_note_from_index(idx, mod, note_id)
              ELSE [index |-> idx, index_modified |-> mod]
        result == update_one(nts, note_id, updates)
        ix == add_note_to_index(rm.index, rm.index_modified, note_id,
                                updates.content, fail # "embed")
    IN  IF fail = "update"
        THEN Outcome(nts, c, rm.index, rm.index_modified, NoRet, "update")
        ELSE IF "content" \in updates.keys
        THEN IF ix.raised
             THEN Outcome(result.notes, c, rm.index, rm.index_modified, NoRet, "embed")
             ELSE Outcome(result.notes, c, ix.index, ix.index_modified,
                          result.modified_count, "")
        ELSE Outcome(result.notes, c, rm.index, rm.index_modified,
                     result.modified_count, "")

(* edit_note(db, note_id, updates); fail = "update": update_one raises,    *)
(* fail = "embed": encode raises inside add_note_to_index.                 *)
edit_note(nts, c, idx, mod, note_id, updates, fail) ==
    LET rm == IF "content" \in updates.keys
              THEN remove_note_from_index(idx, mod, note_id)
              ELSE [index |-> idx, index_modified |-> mod]
        result == update_one(nts, note_id, updates)
        ix == add_note_to_index(rm.index, rm.index_modified, note_id,
                                updates.content, fail # "embed")
    IN  IF fail = "update"
        THEN Outcome(nts, c, rm.index, rm.index_modified, NoRet, "update")
        ELSE IF "content" \in updates.keys /\ result.modified_count # 0
        THEN IF ix.raised
             THEN Outcome(result.notes, c, rm.index, rm.index_modified, NoRet, "embed")
             ELSE Outcome(result.notes, c, ix.index, ix.index_modified,
                          result.modified_count, "")
        ELSE Outcome(result.notes, c, rm.index, rm.index_modified,
                     result.modified_count, "")

----------------------------------------------------------------------------
(* The calls the model makes *)

AddFails == {"none", "transcribe", "insert", "embed"}
EditFails == {"none", "update", "embed"}
DeleteFails == {"none", "delete"}

AddArgs(title, content, tags, workspace, audio_path) ==
    [keys |-> {}, title |-> title, content |-> content, tags |-> tags,
     workspace |-> workspace, audio_path |-> audio_path]

(* The argument lists add_note is called with: all arguments given, tags   *)
(* and workspace left to their defaults, and an audio file together with   *)
(* a content argument.                                                     *)
AddInputs ==
    {AddArgs("T", "C", NoneTags, NoneWorkspace, NoAudio),
     AddArgs("U", "D", <<ReminderTag>>, "work", NoAudio),
     AddArgs("T", "C", <<>>, NoneWorkspace, "a.wav")}

(* An updates dictionary: keys is the set of fields it names; a field it   *)
(* does not name carries a fixed value that is never read.                 *)
Updates(k, title, content, tags) ==
    [keys |-> k,
     title |-> IF "title" \in k THEN title ELSE "T",
     content |-> IF "content" \in k THEN content ELSE "C",
     tags |-> IF "tags" \in k THEN tags ELSE <<>>]

(* The updates edit_note is called with: none, title and tags (as in       *)
(* test_edit_note), and content alone.                                     *)
UpdatesSet ==
    {Updates({}, "T", "C", <<>>),
     Updates({"title", "tags"}, "U", "C", <<ReminderTag>>),
     Updates({"content"}, "T", "C", <<>>),
     Updates({"content"}, "T", "D", <<>>)}

NoArgs == AddArgs("T", "C", <<>>, "default", NoAudio)

EditArgs(updates) ==
    [keys |-> updates.keys, title |-> updates.title, content |-> updates.content,
     tags |-> updates.tags, workspace |-> "default", audio_path |-> NoAudio]

(* The call was not ask_question or ask_question_web. *)
NoAsk ==
    [question |-> "", k |-> 0, cached |-> FALSE, searched |-> FALSE,
     similar |-> <<>>, full_text |-> <<>>, relevant |-> <<>>, generated |-> FALSE,
     ret |-> ""]

Call(op, id, args, out) ==
    [op |-> op, id |-> id, args |-> args, ret |-> out.ret,
     raised |-> out.raised, at |-> out.at, ask |-> NoAsk]

NoCall(op) ==
    [op |-> op, id |-> 0, args |-> NoArgs, ret |-> NoRet, raised |-> FALSE, at |-> "",
     ask |-> NoAsk]

NoteIds == 1..(MaxSeq + 1)

(* Whether the call reached load_index(): add_note reaches it in           *)
(* add_note_to_index (line 31), edit_note when the updates name content,   *)
(* delete_note when a note was deleted.                                    *)
AddLoads(out) == out.at \in {"", "embed"}
EditLoads(updates) == "content" \in updates.keys
DeleteLoads(out) == ~out.raised /\ out.ret # 0

(* No check_trigger call has been made on these arguments yet. *)
NoProbe == [trigger |-> <<>>, note |-> [title |-> "T"], called |-> FALSE, ret |-> FALSE]

(* add_mic_voice has not been called: no queue, no stream, no thread. *)
NoMic ==
    [pc |-> "idle", recording |-> FALSE, q |-> 0, frames |-> 0, stream |-> FALSE,
     stopper |-> "none", joined |-> FALSE]

(* No run_agents call has been made by the last command. *)
NoRun == [ran |-> FALSE, id |-> 0, tags |-> <<>>, log |-> <<>>, raised |-> FALSE]

Init ==
    /\ notes = <<>>
    /\ seq = 0
    /\ index = <<>>
    /\ index_modified = FALSE
    /\ now = 0
    /\ last = NoCall("init")
    /\ issued = <<>>
    /\ pc = [p \in Callers |-> "idle"]
    /\ held = [p \in Callers |-> [id |-> 0, args |-> NoArgs]]
    /\ agents = <<>>
    /\ agentRun = NoRun
    /\ loaded = FALSE
    /\ file = NoFile
    /\ qa_cache = <<>>
    /\ probe = NoProbe
    /\ mic = NoMic

(* The handle a load_index() call made in this state returns. *)
Handle == load_index(loaded, index, index_modified, file)

(* The module globals after a call that used the index (uses) and left it  *)
(* as out says, or that never reached load_index.                          *)
ApplyIndex(out, uses) ==
    /\ loaded' = (loaded \/ uses)
    /\ index' = IF loaded \/ uses THEN out.index ELSE index
    /\ index_modified' = IF loaded \/ uses THEN out.index_modified ELSE index_modified

Apply(out, uses) ==
    /\ notes' = out.notes
    /\ seq' = out.seq
    /\ ApplyIndex(out, uses)

(* One add_note call, start to end, while the counter is below max. *)
AddNoteUpTo(max) ==
    /\ seq < max
    /\ \E a \in AddInputs, fail \in AddFails :
        \E out \in {add_note(notes, seq, Handle.index, Handle.index_modified, now,
                        a.title, a.content, a.tags, a.workspace, a.audio_path, fail)} :
            /\ Apply(out, AddLoads(out))
            /\ last' = Call("add", out.ret, a, out)
            /\ issued' = IF out.seq # seq THEN Append(issued, out.seq) ELSE issued
    /\ UNCHANGED <<now, callerVars, agentVars, otherVars>>

AddNote == AddNoteUpTo(MaxSeq)

(* One edit_note call, start to end. *)
EditNote ==
    /\ \E note_id \in NoteIds, updates \in UpdatesSet, fail \in EditFails :
        \E out \in {edit_note(notes, seq, Handle.index, Handle.index_modified,
                         note_id, updates, fail)} :
            /\ Apply(out, EditLoads(updates))
            /\ last' = Call("edit", note_id, EditArgs(updates), out)
    /\ UNCHANGED <<now, issued, callerVars, agentVars, otherVars>>

(* One delete_note call, start to end. *)
DeleteNote ==
    /\ \E note_id \in NoteIds, fail \in DeleteFails :
        \E out \in {delete_note(notes, seq, Handle.index, Handle.index_modified,
                           note_id, fail)} :
            /\ Apply(out, DeleteLoads(out))
            /\ last' = Call("delete", note_id, NoArgs, out)
    /\ UNCHANGED <<now, issued, callerVars, agentVars, otherVars>>

(* Time passes between calls. *)
Tick ==
    /\ now < MaxTime
    /\ now' = now + 1
    /\ last' = NoCall("tick")
    /\ UNCHANGED <<notes, seq, index, index_modified, issued, callerVars, agentVars,
                   loaded, otherVars>>

Next == AddNote \/ EditNote \/ DeleteNote

Spec == Init /\ [][Next]_vars

(* The repository with a clock: timestamps are read from now. *)
NextClock == AddNote \/ EditNote \/ DeleteNote \/ Tick

SpecClock == Init /\ [][NextClock]_vars

----------------------------------------------------------------------------
(* add_note called by concurrent callers: each call is the sequence of its *)
(* database and index operations, and the calls interleave between them.   *)

Holding(p) == pc[p] \in {"insert", "index"}

(* add_note lines 11-18: transcription and the fallbacks. *)
AddBegin(p) ==
    /\ pc[p] = "idle"
    /\ seq + Cardinality({q \in Callers : pc[q] = "alloc"}) < MaxSeq
    /\ \E a \in AddInputs, ok \in BOOLEAN :
        IF a.audio_path # NoAudio /\ ~ok
        THEN /\ last' = [NoCall("add") EXCEPT !.args = a, !.id = NoRet,
                                              !.raised = TRUE, !.at = "transcribe"]
             /\ UNCHANGED <<pc, held>>
        ELSE /\ pc' = [pc EXCEPT ![p] = "alloc"]
             /\ held' = [held EXCEPT ![p] = [id |-> 0, args |->
                    [a EXCEPT
                       !.content = IF a.audio_path # NoAudio
                                   THEN transcribe_audio(a.audio_path) ELSE @,
                       !.tags = IF @ = NoneTags THEN <<>> ELSE @,
                       !.workspace = IF @ = NoneWorkspace THEN "default" ELSE @]]]
             /\ UNCHANGED last
    /\ UNCHANGED <<notes, seq, index, index_modified, now, issued, agentVars,
                   loaded, otherVars>>

(* add_note line 19: note_id = get_next_note_id(db), one database operation. *)
AddAlloc(p) ==
    /\ pc[p] = "alloc"
    /\ LET nid == get_next_note_id(seq)
       IN  /\ seq' = nid.seq
           /\ held' = [held EXCEPT ![p].id = nid.ret]
           /\ issued' = Append(issued, nid.ret)
    /\ pc' = [pc EXCEPT ![p] = "insert"]
    /\ UNCHANGED <<notes, index, index_modified, now, last, agentVars, loaded, otherVars>>

(* add_note lines 21-30: db["notes"].insert_one(note). *)
AddInsert(p) ==
    /\ pc[p] = "insert"
    /\ \E ok \in BOOLEAN :
        LET a == held[p].args
            ins == insert_one(notes, held[p].id,
                              NewNote(a.title, a.content, a.tags, a.workspace, now))
        IN  IF ~ok \/ ins.raised
            THEN /\ pc' = [pc EXCEPT ![p] = "idle"]
                 /\ last' = [NoCall("add") EXCEPT !.args = a, !.id = NoRet,
                                                  !.raised = TRUE, !.at = "insert"]
                 /\ UNCHANGED notes
            ELSE /\ pc' = [pc EXCEPT ![p] = "index"]
                 /\ notes' = ins.notes
                 /\ UNCHANGED last
    /\ UNCHANGED <<seq, index, index_modified, now, issued, held, agentVars,
                   loaded, otherVars>>

(* add_note lines 31-33: add_note_to_index(note_id, content); return. *)
AddIndex(p) ==
    /\ pc[p] = "index"
    /\ \E ok \in BOOLEAN :
        LET a == held[p].args
            ix == add_note_to_index(Handle.index, Handle.index_modified,
                                    held[p].id, a.content, ok)
        IN  /\ ApplyIndex(ix, TRUE)
            /\ last' = [NoCall("add") EXCEPT
                          !.args = a,
                          !.id = IF ix.raised THEN NoRet ELSE held[p].id,
                          !.ret = IF ix.raised THEN NoRet ELSE held[p].id,
                          !.raised = ix.raised,
                          !.at = IF ix.raised THEN "embed" ELSE ""]
    /\ pc' = [pc EXCEPT ![p] = "idle"]
    /\ UNCHANGED <<notes, seq, now, issued, held, agentVars, otherVars>>

NextConc ==
    \/ \E p \in Callers : AddBegin(p)
    \/ \E p \in Callers : AddAlloc(p)
    \/ \E p \in Callers : AddInsert(p)
    \/ \E p \in Callers : AddIndex(p)
    \/ DeleteNote

SpecConc == Init /\ [][NextConc]_vars

----------------------------------------------------------------------------
(* agent_runner.py *)

TagPrefix == <<"t", "a", "g", ":">>
EmptyTagsMarker == <<"[", "]">>
AiFailedTag == <<"[", "A", "I", " ", "f", "a", "i", "l", "e", "d", "]">>

(* Mutant of StartsWith: every string passes. *)
StartsWith_any(str, prefix) == TRUE

(* trigger.startswith(prefix) *)
StartsWith(str, prefix) ==
    Len(str) >= Len(prefix) /\ SubSeq(str, 1, Len(prefix)) = prefix

(* check_trigger(trigger, note), tags being note.get("tags"). *)
check_trigger(trigger, tags) ==
    IF StartsWith(trigger, TagPrefix)
    THEN LET tag_condition == SubSeq(trigger, Len(TagPrefix) + 1, Len(trigger))
         IN  IF tag_condition = EmptyTagsMarker
             THEN tags = <<>>
             ELSE \E i \in 1..Len(tags) : tags[i] = tag_condition
    ELSE FALSE

(* generate_response(prompt): the completion, or the marker it returns     *)
(* when the model call fails.                                              *)
generate_response(completion, ai_ok) ==
    IF ai_ok THEN completion ELSE "[AI response failed]"

(* [tag.strip() for tag in response.split(",")] of the two responses. *)
SplitTags(response) ==
    IF response = "[AI response failed]" THEN <<AiFailedTag>> ELSE <<WorkTag>>

(* list(set(tags)): the distinct tags, in the order the set iterates. *)
ListOfSet(tags, order) ==
    SelectSeq(order, LAMBDA x : \E i \in 1..Len(tags) : tags[i] = x)

(* What one handler call did: the notes it leaves and how it ended: "ok",  *)
(* "caught" (an exception inside its try block, logged) or "raised" (an    *)
(* exception that left the handler).                                       *)
Handled(nts, outcome) == [notes |-> nts, outcome |-> outcome]

(* add_to_calendar(db, note): the title and content are read before the    *)
(* try block, the files are written inside it.                             *)
add_to_calendar(nts, note_id, note, t, env, exc) ==
    IF ~({"title", "content"} \subseteq DOMAIN note) THEN Handled(nts, "raised")
    ELSE IF exc THEN Handled(nts, "caught")
    ELSE Handled(nts, "ok")

(* share_to_whatsapp(db, note) *)
share_to_whatsapp(nts, note_id, note, t, env, exc) ==
    IF ~({"title", "content"} \subseteq DOMAIN note) THEN Handled(nts, "raised")
    ELSE IF exc THEN Handled(nts, "caught")
    ELSE Handled(nts, "ok")

(* Mutant of rephrase_note: the body is not inside a try block. *)
rephrase_note_no_try(nts, note_id, note, t, env, exc) ==
    IF exc THEN Handled(nts, "raised")
    ELSE Handled(update_one(nts, note_id,
                    [keys |-> {"content", "updated_at"},
                     content |-> generate_response("R", env.ai_ok),
                     updated_at |-> t]).notes, "ok")

(* rephrase_note(db, note): writes the new content and updated_at straight *)
(* to the collection; the whole body is inside the try block.              *)
rephrase_note(nts, note_id, note, t, env, exc) ==
    IF exc THEN Handled(nts, "caught")
    ELSE LET new_content == generate_response("R", env.ai_ok)
         IN  Handled(update_one(nts, note_id,
                        [keys |-> {"content", "updated_at"},
                         content |-> new_content, updated_at |-> t]).notes, "ok")

(* suggest_tags(db, note): writes the merged tags straight to the          *)
(* collection; the whole body is inside the try block.                     *)
suggest_tags(nts, note_id, note, t, env, exc) ==
    IF exc THEN Handled(nts, "caught")
    ELSE LET suggested_tags == SplitTags(generate_response("work", env.ai_ok))
             new_tags == ListOfSet(note.tags \o suggested_tags, env.order)
         IN  Handled(update_one(nts, note_id,
                        [keys |-> {"tags"}, tags |-> new_tags]).notes, "ok")

(* action_functions: the action names that have a handler. *)
KnownActions ==
    {"calendar_event", "share_to_whatsapp", "rephrase_with_gemini", "suggest_tags"}

(* Mutant of perform_action: action_functions[action], which raises        *)
(* KeyError for a name without a handler.                                  *)
perform_action_strict(action, nts, note_id, note, t, env, exc) ==
    IF action = "calendar_event" THEN add_to_calendar(nts, note_id, note, t, env, exc)
    ELSE IF action = "share_to_whatsapp" THEN share_to_whatsapp(nts, note_id, note, t, env, exc)
    ELSE IF action = "rephrase_with_gemini" THEN rephrase_note(nts, note_id, note, t, env, exc)
    ELSE IF action = "suggest_tags" THEN suggest_tags(nts, note_id, note, t, env, exc)
    ELSE Handled(nts, "raised")

(* perform_action(action, note, db) *)
perform_action(action, nts, note_id, note, t, env, exc) ==
    IF action = "calendar_event" THEN add_to_calendar(nts, note_id, note, t, env, exc)
    ELSE IF action = "share_to_whatsapp" THEN share_to_whatsapp(nts, note_id, note, t, env, exc)
    ELSE IF action = "rephrase_with_gemini" THEN rephrase_note(nts, note_id, note, t, env, exc)
    ELSE IF action = "suggest_tags" THEN suggest_tags(nts, note_id, note, t, env, exc)
    ELSE Handled(nts, "unknown")

(* The rule visited at position i fires: both its trigger and its action   *)
(* are set, and the note satisfies the trigger.                            *)
Fires(rule, note) ==
    rule.trigger # <<>> /\ rule.action # "" /\ check_trigger(rule.trigger, note.tags)

(* run_agents(db, note): the loop over agents.items() from rule i on.      *)
(* env.exc is the set of rule positions whose handler meets an exception.  *)
RECURSIVE RunRules(_, _, _, _, _, _, _, _)
RunRules(rules, i, nts, note_id, note, t, env, log) ==
    IF i > Len(rules) THEN [notes |-> nts, log |-> log, raised |-> FALSE]
    ELSE IF ~Fires(rules[i], note)
    THEN RunRules(rules, i + 1, nts, note_id, note, t, env, log)
    ELSE LET h == perform_action(rules[i].action, nts, note_id, note, t, env,
                                 i \in env.exc)
             entry == [rule |-> i, action |-> rules[i].action, outcome |-> h.outcome]
         IN  IF h.outcome = "raised"
             THEN [notes |-> h.notes, log |-> Append(log, entry), raised |-> TRUE]
             ELSE RunRules(rules, i + 1, h.notes, note_id, note, t, env,
                           Append(log, entry))

run_agents(rules, nts, note_id, note, t, env) ==
    RunRules(rules, 1, nts, note_id, note, t, env, <<>>)

----------------------------------------------------------------------------
(* modules/cli.py: the add and edit commands *)

Trigger(tag) == TagPrefix \o tag

(* The rules a configuration file is made of. *)
Rules ==
    {[trigger |-> Trigger(ReminderTag), action |-> "calendar_event"],
     [trigger |-> Trigger(ReminderTag), action |-> "rephrase_with_gemini"],
     [trigger |-> Trigger(EmptyTagsMarker), action |-> "suggest_tags"],
     [trigger |-> Trigger(ReminderTag), action |-> "no_such_action"],
     [trigger |-> <<>>, action |-> "share_to_whatsapp"]}

(* The configuration files: up to MaxRules different rules, in any order. *)
Configs ==
    UNION {{c \in [1..n -> Rules] : \A i, j \in 1..n : i # j => c[i] # c[j]} :
              n \in 0..MaxRules}

(* Orders in which a set of tags can iterate: one order and its reverse,   *)
(* so that any two tags come out both ways round.                          *)
TagOrders ==
    {<<ReminderTag, WorkTag, AiFailedTag>>, <<AiFailedTag, WorkTag, ReminderTag>>}

Envs(n) == [ai_ok : BOOLEAN, exc : SUBSET (1..n), order : TagOrders]

InitAgents ==
    /\ notes = <<>>
    /\ seq = 0
    /\ index = <<>>
    /\ index_modified = FALSE
    /\ now = 0
    /\ last = NoCall("init")
    /\ issued = <<>>
    /\ pc = [p \in Callers |-> "idle"]
    /\ held = [p \in Callers |-> [id |-> 0, args |-> NoArgs]]
    /\ agents \in Configs
    /\ agentRun = NoRun
    /\ loaded = FALSE
    /\ file = NoFile
    /\ qa_cache = <<>>
    /\ probe = NoProbe
    /\ mic = NoMic

(* What a command leaves when it called run_agents on note note_id, found  *)
(* by find_one after the repository call out.                              *)
AfterAgents(op, note_id, args, out) ==
    \E env \in Envs(Len(agents)) :
    \E run \in {run_agents(agents, out.notes, note_id, out.notes[note_id], now, env)} :
        /\ notes' = run.notes
        /\ agentRun' = [ran |-> TRUE, id |-> note_id, tags |-> out.notes[note_id].tags,
                        log |-> run.log, raised |-> run.raised]
        /\ last' = [Call(op, note_id, args, out) EXCEPT
                       !.raised = run.raised,
                       !.at = IF run.raised THEN "agents" ELSE ""]

(* cli.add: add_note, then run_agents on the note it finds. *)
CliAdd ==
    /\ seq < MaxAgentSeq
    /\ \E a \in AddInputs, fail \in AddFails :
        \E out \in {add_note(notes, seq, Handle.index, Handle.index_modified, now,
                        a.title, a.content, a.tags, a.workspace, a.audio_path, fail)} :
            /\ seq' = out.seq
            /\ ApplyIndex(out, AddLoads(out))
            /\ issued' = IF out.seq # seq THEN Append(issued, out.seq) ELSE issued
            /\ IF ~out.raised /\ out.ret \in DOMAIN out.notes
               THEN AfterAgents("cli_add", out.ret, a, out)
               ELSE /\ notes' = out.notes
                    /\ agentRun' = NoRun
                    /\ last' = Call("cli_add", out.ret, a, out)
    /\ UNCHANGED <<now, callerVars, agents, otherVars>>

(* cli.edit: edit_note, then run_agents when a note was modified. *)
CliEdit ==
    /\ \E note_id \in 1..(MaxAgentSeq + 1), updates \in UpdatesSet, fail \in EditFails :
        \E out \in {edit_note(notes, seq, Handle.index, Handle.index_modified,
                         note_id, updates, fail)} :
            /\ seq' = out.seq
            /\ ApplyIndex(out, EditLoads(updates))
            /\ IF ~out.raised /\ out.ret # 0 /\ note_id \in DOMAIN out.notes
               THEN AfterAgents("cli_edit", note_id, EditArgs(updates), out)
               ELSE /\ notes' = out.notes
                    /\ agentRun' = NoRun
                    /\ last' = Call("cli_edit", note_id, EditArgs(updates), out)
    /\ UNCHANGED <<now, issued, callerVars, agents, otherVars>>

(* The add command under every configuration file. *)
NextAgents == CliAdd

SpecAgents == InitAgents /\ [][NextAgents]_vars

(* The add and edit commands under every configuration file. *)
NextCli == CliAdd \/ CliEdit

SpecCli == InitAgents /\ [][NextCli]_vars

----------------------------------------------------------------------------
(* modules/search_engine.py called on its own, over the life of several    *)
(* processes that share the backing file                                   *)

IndexNoteIds == {1, 2}
IndexTexts == {"C", "D"}

IndexCall(op, note_id, content, raised) ==
    [NoCall(op) EXCEPT !.id = note_id, !.args.content = content, !.raised = raised,
                       !.at = IF raised THEN "embed" ELSE ""]

(* load_index() *)
LoadIndex ==
    /\ ApplyIndex(Handle, TRUE)
    /\ last' = NoCall("load_index")
    /\ UNCHANGED <<notes, seq, now, issued, callerVars, agentVars, otherVars>>

(* save_index() *)
SaveIndex ==
    /\ \E s \in {save_index(loaded, index, index_modified, file)} :
          /\ file' = s.file
          /\ index_modified' = s.index_modified
    /\ last' = NoCall("save_index")
    /\ UNCHANGED <<notes, seq, index, now, issued, callerVars, agentVars, loaded,
                   qa_cache, probe, mic>>

(* add_note_to_index(note_id, content) *)
IndexAdd ==
    /\ Len(Handle.index) < MaxEntries
    /\ \E note_id \in IndexNoteIds, content \in IndexTexts, ok \in BOOLEAN :
        \E ix \in {add_note_to_index(Handle.index, Handle.index_modified,
                                     note_id, content, ok)} :
            /\ ApplyIndex(ix, TRUE)
            /\ last' = IndexCall("index_add", note_id, content, ix.raised)
    /\ UNCHANGED <<notes, seq, now, issued, callerVars, agentVars, otherVars>>

(* remove_note_from_index(note_id) *)
IndexRemove ==
    /\ \E note_id \in IndexNoteIds :
        \E rm \in {remove_note_from_index(Handle.index, Handle.index_modified, note_id)} :
            /\ ApplyIndex(rm, TRUE)
            /\ last' = IndexCall("index_remove", note_id, "C", FALSE)
    /\ UNCHANGED <<notes, seq, now, issued, callerVars, agentVars, otherVars>>

(* The process ends and another starts: the module globals are those of a  *)
(* fresh import, the file and the database stay.                           *)
Exit ==
    /\ loaded' = FALSE
    /\ index' = <<>>
    /\ index_modified' = FALSE
    /\ qa_cache' = <<>>
    /\ last' = NoCall("exit")
    /\ UNCHANGED <<notes, seq, now, issued, callerVars, agentVars, file, probe, mic>>

NextIndex == LoadIndex \/ SaveIndex \/ IndexAdd \/ IndexRemove \/ Exit

SpecIndex == Init /\ [][NextIndex]_vars

----------------------------------------------------------------------------
(* check_trigger called on its own *)

(* note.get("tags"): a note without the key has no tags. *)
NoteTags(note) == IF "tags" \in DOMAIN note THEN note.tags ELSE <<>>

(* The triggers it is called with: the empty-tag marker, tag triggers, the *)
(* bare prefix, and strings that do not start with the prefix.             *)
Triggers ==
    {Trigger(EmptyTagsMarker), Trigger(ReminderTag), Trigger(WorkTag), TagPrefix,
     <<>>, WorkTag, <<"t", "a", "g", "-">> \o WorkTag, <<"T", "a", "g", ":">> \o WorkTag}

(* The tag lists of the notes: up to MaxTags tags, "[]" being one of them. *)
TagLists ==
    UNION {[1..n -> {ReminderTag, WorkTag, EmptyTagsMarker}] : n \in 0..MaxTags}

(* The notes it is called with: with a tag list, and without the key. *)
ProbeNotes == {[title |-> "T"]} \cup {[title |-> "T", tags |-> tags] : tags \in TagLists}

InitTrigger ==
    /\ notes = <<>>
    /\ seq = 0
    /\ index = <<>>
    /\ index_modified = FALSE
    /\ now = 0
    /\ last = NoCall("init")
    /\ issued = <<>>
    /\ pc = [p \in Callers |-> "idle"]
    /\ held = [p \in Callers |-> [id |-> 0, args |-> NoArgs]]
    /\ agents = <<>>
    /\ agentRun = NoRun
    /\ loaded = FALSE
    /\ file = NoFile
    /\ qa_cache = <<>>
    /\ probe \in [trigger : Triggers, note : ProbeNotes, called : {FALSE}, ret : {FALSE}]
    /\ mic = NoMic

(* check_trigger(trigger, note) *)
CheckTrigger ==
    /\ ~probe.called
    /\ probe' = [probe EXCEPT
                    !.called = TRUE,
                    !.ret = check_trigger(probe.trigger, NoteTags(probe.note))]
    /\ UNCHANGED <<notes, seq, index, index_modified, now, last, issued, callerVars,
                   agentVars, loaded, file, qa_cache, mic>>

NextTrigger == CheckTrigger

SpecTrigger == InitTrigger /\ [][NextTrigger]_vars

----------------------------------------------------------------------------
(* modules/gemini_client.py: ask_question and ask_question_web *)

NoMatchResponse ==
    "I couldn't find any notes that match your question. Please try adding some notes first or rephrase your question."

(* The elements of a list. *)
Range(list) == {list[i] : i \in 1..Len(list)}

(* Mutant of relevant_notes: every full-text result is appended. *)
relevant_notes_no_dedupe(nts, similar_note_ids, full_text_results) ==
    (IF similar_note_ids # <<>> THEN FindIds(nts, Range(similar_note_ids)) ELSE <<>>)
        \o full_text_results

(* relevant_notes as both functions build it, each note named by its _id:  *)
(* the notes find() returns for the semantic-search ids, then the          *)
(* full-text results whose _id is not in similar_note_ids.                 *)
relevant_notes(nts, similar_note_ids, full_text_results) ==
    LET semantic_notes == IF similar_note_ids # <<>>
                          THEN FindIds(nts, Range(similar_note_ids))
                          ELSE <<>>
    IN  semantic_notes \o
        SelectSeq(full_text_results, LAMBDA i : i \notin Range(similar_note_ids))

(* response.text: the text the model returns for a prompt. *)
Completion == "A"

(* What an ask_question or ask_question_web call did. *)
Asked(cache, cached, searched, similar, full_text, relevant, generated, ret, raised) ==
    [cache |-> cache, cached |-> cached, searched |-> searched, similar |-> similar,
     full_text |-> full_text, relevant |-> relevant, generated |-> generated,
     ret |-> ret, raised |-> raised]

(* Mutant of ask_question: the cache is not looked up. *)
ask_question_no_lookup(nts, cache, idx, question, k, ai_ok, fail) ==
    IF fail = "embed"
    THEN Asked(cache, FALSE, TRUE, <<>>, <<>>, <<>>, FALSE, "", TRUE)
    ELSE
    LET similar_note_ids == search_similar_notes(idx, question, k)
        full_text_results == full_text_search(nts, question)
        relevant == relevant_notes(nts, similar_note_ids, full_text_results)
        response == generate_response(Completion, ai_ok)
    IN  IF relevant = <<>>
        THEN Asked((question :> NoMatchResponse) @@ cache, FALSE, TRUE, similar_note_ids,
                   full_text_results, relevant, FALSE, NoMatchResponse, FALSE)
        ELSE Asked((question :> response) @@ cache, FALSE, TRUE, similar_note_ids,
                   full_text_results, relevant, TRUE, response, FALSE)

(* Mutant of ask_question: the prompt is generated from whatever was found. *)
ask_question_always_generate(nts, cache, idx, question, k, ai_ok, fail) ==
    IF question \in DOMAIN cache
    THEN Asked(cache, TRUE, FALSE, <<>>, <<>>, <<>>, FALSE, cache[question], FALSE)
    ELSE IF fail = "embed"
    THEN Asked(cache, FALSE, TRUE, <<>>, <<>>, <<>>, FALSE, "", TRUE)
    ELSE
    LET similar_note_ids == search_similar_notes(idx, question, k)
        full_text_results == full_text_search(nts, question)
        relevant == relevant_notes(nts, similar_note_ids, full_text_results)
        response == generate_response(Completion, ai_ok)
    IN  Asked((question :> response) @@ cache, FALSE, TRUE, similar_note_ids,
              full_text_results, relevant, TRUE, response, FALSE)

(* ask_question(db, question, k) with the cache as it is and the index     *)
(* handle load_index returns; fail = "embed": encode raises inside         *)
(* search_similar_notes.                                                   *)
ask_question(nts, cache, idx, question, k, ai_ok, fail) ==
    IF question \in DOMAIN cache
    THEN Asked(cache, TRUE, FALSE, <<>>, <<>>, <<>>, FALSE, cache[question], FALSE)
    ELSE IF fail = "embed"
    THEN Asked(cache, FALSE, TRUE, <<>>, <<>>, <<>>, FALSE, "", TRUE)
    ELSE
    LET similar_note_ids == search_similar_notes(idx, question, k)
        full_text_results == full_text_search(nts, question)
        relevant == relevant_notes(nts, similar_note_ids, full_text_results)
        response == generate_response(Completion, ai_ok)
    IN  IF relevant = <<>>
        THEN Asked((question :> NoMatchResponse) @@ cache, FALSE, TRUE, similar_note_ids,
                   full_text_results, relevant, FALSE, NoMatchResponse, FALSE)
        ELSE Asked((question :> response) @@ cache, FALSE, TRUE, similar_note_ids,
                   full_text_results, relevant, TRUE, response, FALSE)

(* ask_question_web(db, question, k): the same searches, no cache and no   *)
(* fixed response.                                                         *)
ask_question_web(nts, cache, idx, question, k, ai_ok, fail) ==
    IF fail = "embed"
    THEN Asked(cache, FALSE, TRUE, <<>>, <<>>, <<>>, FALSE, "", TRUE)
    ELSE
    LET similar_note_ids == search_similar_notes(idx, question, k)
        full_text_results == full_text_search(nts, question)
        relevant == relevant_notes(nts, similar_note_ids, full_text_results)
        response == generate_response(Completion, ai_ok)
    IN  Asked(cache, FALSE, TRUE, similar_note_ids, full_text_results, relevant,
              TRUE, response, FALSE)

(* The questions asked: a word some notes hold as their content, and one  *)
(* some hold as their title.                                               *)
Questions == {"C", "U"}
Ks == {1, 5}
AskFails == {"none", "embed"}

AskCall(op, question, k, out) ==
    [NoCall(op) EXCEPT
        !.raised = out.raised,
        !.at = IF out.raised THEN "embed" ELSE "",
        !.ask = [question |-> question, k |-> k, cached |-> out.cached,
                 searched |-> out.searched, similar |-> out.similar,
                 full_text |-> out.full_text, relevant |-> out.relevant,
                 generated |-> out.generated, ret |-> out.ret]]

(* One ask_question call. A call that searches loads the index handle.     *)
AskQuestion ==
    /\ \E question \in Questions, k \in Ks, ai_ok \in BOOLEAN, fail \in AskFails :
        \E out \in {ask_question(notes, qa_cache, Handle.index, question, k, ai_ok, fail)} :
            /\ qa_cache' = out.cache
            /\ ApplyIndex(Handle, out.searched)
            /\ last' = AskCall("ask", question, k, out)
    /\ UNCHANGED <<notes, seq, now, issued, callerVars, agentVars, file, probe, mic>>

(* One ask_question_web call. *)
AskQuestionWeb ==
    /\ \E question \in Questions, k \in Ks, ai_ok \in BOOLEAN, fail \in AskFails :
        \E out \in {ask_question_web(notes, qa_cache, Handle.index, question, k, ai_ok, fail)} :
            /\ qa_cache' = out.cache
            /\ ApplyIndex(Handle, out.searched)
            /\ last' = AskCall("ask_web", question, k, out)
    /\ UNCHANGED <<notes, seq, now, issued, callerVars, agentVars, file, probe, mic>>

(* The repository and the two question commands in one process. *)
NextAsk ==
    AddNoteUpTo(MaxAskSeq) \/ EditNote \/ DeleteNote \/ AskQuestion \/ AskQuestionWeb

SpecAsk == Init /\ [][NextAsk]_vars

(* The CLI commands, one process after another: a process runs add, edit,  *)
(* delete or ask and ends; no command calls save_index.                    *)
NextProc == CliAdd \/ CliEdit \/ DeleteNote \/ AskQuestion \/ Exit

SpecProc == Init /\ [][NextProc]_vars

----------------------------------------------------------------------------
(* modules/cli.py: add_mic_voice, its main thread, the stopper thread and  *)
(* the capture callback of the stream                                      *)

(* Mutant of while_recording: the loop is "while True". *)
while_true(m) == TRUE

(* The test of "while recording". *)
while_recording(m) == m.recording

(* Lines 65-82: the first input() returns, the queue and the flag are      *)
(* created, the stream is opened and the stopper thread started.           *)
MicStart ==
    /\ mic.pc = "idle"
    /\ mic' = [mic EXCEPT !.pc = "loop", !.recording = TRUE, !.stream = TRUE,
                          !.stopper = "waiting"]
    /\ UNCHANGED <<notes, seq, index, index_modified, now, last, issued, callerVars,
                   agentVars, loaded, file, qa_cache, probe>>

(* callback: q.put(indata.copy()), called by the audio thread while the    *)
(* stream is open. The queue has no limit; the model holds MaxQueue.       *)
Callback ==
    /\ mic.stream
    /\ mic.q < MaxQueue
    /\ mic' = [mic EXCEPT !.q = @ + 1]
    /\ UNCHANGED <<notes, seq, index, index_modified, now, last, issued, callerVars,
                   agentVars, loaded, file, qa_cache, probe>>

(* Line 83: the main thread tests the flag. *)
MainCheck ==
    /\ mic.pc = "loop"
    /\ mic' = [mic EXCEPT !.pc = IF while_recording(mic) THEN "get" ELSE "join"]
    /\ UNCHANGED <<notes, seq, index, index_modified, now, last, issued, callerVars,
                   agentVars, loaded, file, qa_cache, probe>>

(* Line 84: frames.append(q.get()); q.get() blocks while the queue is      *)
(* empty. frames counts the buffers collected, up to MaxFrames.            *)
MainGet ==
    /\ mic.pc = "get"
    /\ mic.q > 0
    /\ mic' = [mic EXCEPT !.pc = "loop", !.q = @ - 1,
                          !.frames = IF @ < MaxFrames THEN @ + 1 ELSE @]
    /\ UNCHANGED <<notes, seq, index, index_modified, now, last, issued, callerVars,
                   agentVars, loaded, file, qa_cache, probe>>

(* stop_recording, lines 79-80: its input() returns and it clears the flag. *)
StopSignal ==
    /\ mic.stopper = "waiting"
    /\ mic' = [mic EXCEPT !.recording = FALSE, !.stopper = "returning"]
    /\ UNCHANGED <<notes, seq, index, index_modified, now, last, issued, callerVars,
                   agentVars, loaded, file, qa_cache, probe>>

(* stop_recording returns and the stopper thread ends. *)
StopperEnd ==
    /\ mic.stopper = "returning"
    /\ mic' = [mic EXCEPT !.stopper = "ended"]
    /\ UNCHANGED <<notes, seq, index, index_modified, now, last, issued, callerVars,
                   agentVars, loaded, file, qa_cache, probe>>

(* Line 85 and the end of "with stream": stopper.join() returns once the   *)
(* stopper thread has ended, and the stream is closed.                     *)
MainJoin ==
    /\ mic.pc = "join"
    /\ mic.stopper = "ended"
    /\ mic' = [mic EXCEPT !.pc = "joined", !.joined = TRUE, !.stream = FALSE]
    /\ UNCHANGED <<notes, seq, index, index_modified, now, last, issued, callerVars,
                   agentVars, loaded, file, qa_cache, probe>>

NextMic ==
    MicStart \/ Callback \/ MainCheck \/ MainGet \/ StopSignal \/ StopperEnd \/ MainJoin

(* The threads that can run do run, and the audio thread keeps calling the *)
(* callback while the stream is open; when the user presses Enter is left  *)
(* open.                                                                   *)
SpecMic ==
    /\ Init
    /\ [][NextMic]_vars
    /\ WF_vars(Callback)
    /\ WF_vars(MainCheck)
    /\ WF_vars(MainGet)
    /\ WF_vars(StopperEnd)
    /\ WF_vars(MainJoin)

----------------------------------------------------------------------------
(* Properties of the note repository *)

(* The call that just ended was op and returned (no exception left it). *)
Returned(call, op) == call.op = op /\ ~call.raised

(* C1: in every reachable state the Vector Index holds an entry for a note *)
(* id if and only if a note with that id exists in the notes collection.   *)
C1_IndexIffNote == IndexIds(index) = DOMAIN notes

(* C3: after add_note returns n, list_notes contains a note with _id n,    *)
(* that note has the given title, content (no audio given), tags and       *)
(* workspace (an omitted one stored as its default), and n is the id of no *)
(* note that existed before the call.                                      *)
C3_AddThenList ==
    [][Returned(last', "add") =>
        LET n == last'.ret
            a == last'.args
        IN  /\ n \in list_notes(notes')
            /\ n \notin DOMAIN notes
            /\ notes'[n].title = a.title
            /\ a.audio_path = NoAudio => notes'[n].content = a.content
            /\ notes'[n].tags = (IF a.tags = NoneTags THEN <<>> ELSE a.tags)
            /\ notes'[n].workspace =
                   (IF a.workspace = NoneWorkspace THEN "default" ELSE a.workspace)
            /\ \A m \in DOMAIN notes : m \in list_notes(notes') /\ notes'[m] = notes[m]
    ]_vars

(* add_note has returned a second id while the first note still exists. *)
C3_Witness ==
    /\ Returned(last, "add")
    /\ last.ret = 2
    /\ DOMAIN notes = {1, 2}
    /\ last.args.tags = <<ReminderTag>>

(* C5: edit_note on an id that has no note returns 0, raises no exception  *)
(* and leaves the index without an entry for that id, whether or not the   *)
(* updates name content (the database call itself not failing).            *)
C5_EditMissing ==
    [][(last'.op = "edit" /\ last'.id \notin DOMAIN notes /\ last'.at # "update") =>
        /\ ~last'.raised
        /\ last'.ret = 0
        /\ last'.id \notin IndexIds(index')
        /\ notes' = notes
    ]_vars

(* edit_note with new content was called on an id whose note is deleted,   *)
(* while another note is indexed.                                          *)
C5_Witness ==
    /\ last.op = "edit"
    /\ last.id \notin DOMAIN notes
    /\ last.id <= seq
    /\ "content" \in last.args.keys
    /\ last.ret = 0
    /\ index # <<>>

(* C7 as stated: edit_note on an existing note sets exactly the named      *)
(* fields, returns 1, and leaves the rest (other notes, counter, and the   *)
(* index when content is not named) unchanged.                             *)
EditFrame(nts, c, idx, mod, nts2, c2, idx2, mod2, call) ==
    /\ nts2 = [nts EXCEPT ![call.id] = ApplySet(nts[call.id], call.args)]
    /\ c2 = c
    /\ "content" \notin call.args.keys => idx2 = idx /\ mod2 = mod

C7_EditReturnsOne ==
    [][(Returned(last', "edit") /\ last'.id \in DOMAIN notes) =>
        /\ last'.ret = 1
        /\ EditFrame(notes, seq, index, index_modified,
                     notes', seq', index', index_modified', last')
    ]_vars

(* C7 amended: it returns 1 when some named field held another value and   *)
(* 0 when every named field already held the given value.                  *)
C7_EditFrame ==
    [][(Returned(last', "edit") /\ last'.id \in DOMAIN notes) =>
        /\ last'.ret = (IF ApplySet(notes[last'.id], last'.args) # notes[last'.id]
                        THEN 1 ELSE 0)
        /\ EditFrame(notes, seq, index, index_modified,
                     notes', seq', index', index_modified', last')
    ]_vars

(* edit_note changed the title and tags of one of two notes. *)
C7_Witness ==
    /\ Returned(last, "edit")
    /\ last.ret = 1
    /\ last.args.keys = {"title", "tags"}
    /\ DOMAIN notes = {1, 2}
    /\ notes[last.id].title = "U"
    /\ notes[last.id].content = "X"

(* C8: delete_note returns 1 when a note with that id existed, and then    *)
(* neither list_notes nor the index holds the id; it returns 0 when none   *)
(* existed, and then notes, index entries, dirty flag and counter are      *)
(* unchanged.                                                              *)
C8_Delete ==
    [][Returned(last', "delete") =>
        IF last'.id \in DOMAIN notes
        THEN /\ last'.ret = 1
             /\ last'.id \notin list_notes(notes')
             /\ last'.id \notin IndexIds(index')
             /\ \A m \in DOMAIN notes \ {last'.id} :
                    m \in DOMAIN notes' /\ notes'[m] = notes[m]
        ELSE /\ last'.ret = 0
             /\ notes' = notes
             /\ index' = index
             /\ index_modified' = index_modified
             /\ seq' = seq
    ]_vars

(* delete_note found nothing to delete while the index was still clean. *)
C8_Witness ==
    /\ Returned(last, "delete")
    /\ last.ret = 0
    /\ ~index_modified

(* C9: with an audio reference the stored content is the transcription     *)
(* result, not the content argument; when transcription fails the error    *)
(* propagates and notes, counter and index are as before the call.         *)
C9_AddAudio ==
    [][(last'.op = "add" /\ last'.args.audio_path # NoAudio) =>
        /\ ~last'.raised =>
              notes'[last'.ret].content = transcribe_audio(last'.args.audio_path)
        /\ last'.at = "transcribe" =>
              /\ last'.raised
              /\ notes' = notes
              /\ seq' = seq
              /\ index' = index
              /\ index_modified' = index_modified
    ]_vars

(* add_note stored a transcript that differs from its content argument. *)
C9_Witness ==
    /\ Returned(last, "add")
    /\ last.args.audio_path # NoAudio
    /\ notes[last.ret].content # last.args.content

(* C6: every edit_note call that modifies a note stamps its updated_at     *)
(* with the current time, so updated_at is not earlier than before the     *)
(* call nor than created_at.                                               *)
C6_EditStampsUpdatedAt ==
    [][(Returned(last', "edit") /\ last'.ret = 1) =>
        /\ notes'[last'.id].updated_at = now'
        /\ notes'[last'.id].updated_at >= notes[last'.id].updated_at
        /\ notes'[last'.id].updated_at >= notes'[last'.id].created_at
    ]_vars

(* C2: get_next_note_id returns a strictly increasing, never repeated      *)
(* integer on every call, also when callers interleave and after notes are *)
(* deleted: two concurrent add_note calls hold two distinct ids.           *)
C2_IdsIncrease ==
    /\ \A i, j \in 1..Len(issued) : i < j => issued[i] < issued[j]
    /\ \A p, q \in Callers :
          (p # q /\ Holding(p) /\ Holding(q)) => held[p].id # held[q].id
    /\ \A p \in Callers : Holding(p) => held[p].id \notin DOMAIN notes \/ pc[p] = "index"

(* Two add_note calls are in progress at once, both holding an id, after   *)
(* the first id has been handed out.                                       *)
C2_Witness ==
    /\ Holding("p")
    /\ Holding("q")
    /\ Len(issued) = 2

(* C4: no reachable state has a note whose stored content differs from    *)
(* the content its index entry was computed from, whether the content was  *)
(* rewritten by edit_note or by an agent action.                           *)
C4_IndexNotStale ==
    \A i \in 1..Len(index) :
        index[i].id \in DOMAIN notes =>
            index[i].vec = encode(notes[index[i].id].content)

(* C10: an exception met by an action handler during run_agents is caught  *)
(* for that handler only: every rule that fires has its handler invoked,   *)
(* in order, and no exception leaves run_agents, so the command completes. *)
FiringRules(rules, tags) ==
    SelectSeq([i \in 1..Len(rules) |-> i],
              LAMBDA i : Fires(rules[i], [tags |-> tags]))

C10_HandlersIsolated ==
    agentRun.ran =>
        /\ ~agentRun.raised
        /\ ~last.raised
        /\ [i \in 1..Len(agentRun.log) |-> agentRun.log[i].rule]
               = FiringRules(agents, agentRun.tags)

(* A handler met an exception and a later rule's handler still ran. *)
C10_Witness ==
    /\ agentRun.ran
    /\ \E i, j \in 1..Len(agentRun.log) :
          /\ i < j
          /\ agentRun.log[i].outcome = "caught"
          /\ agentRun.log[j].outcome = "ok"

(* C11: one run_agents call visits the rules in configuration order; every *)
(* rule whose trigger the note satisfies is reached, once; when its action *)
(* name has a handler the handler runs, once, on that note, and when it    *)
(* has none the name is logged and the loop goes on to the later rules.    *)
C11_RulesInOrder ==
    agentRun.ran =>
        LET log == agentRun.log
        IN  /\ \A i, j \in 1..Len(log) : i < j => log[i].rule < log[j].rule
            /\ \A r \in 1..Len(agents) :
                   (/\ agents[r].trigger # <<>>
                    /\ check_trigger(agents[r].trigger, agentRun.tags))
                   <=> Cardinality({i \in 1..Len(log) : log[i].rule = r}) = 1
            /\ \A i \in 1..Len(log) :
                   /\ log[i].rule \in 1..Len(agents)
                   /\ log[i].action = agents[log[i].rule].action
                   /\ IF log[i].action \in KnownActions
                      THEN log[i].outcome \in {"ok", "caught"}
                      ELSE log[i].outcome = "unknown"

(* A rule with an unknown action name fired, and after it a rule whose     *)
(* handler ran.                                                            *)
C11_Witness ==
    /\ agentRun.ran
    /\ \E i, j \in 1..Len(agentRun.log) :
          /\ i < j
          /\ agentRun.log[i].outcome = "unknown"
          /\ agentRun.log[j].outcome = "ok"

(* C12: check_trigger is true exactly when the trigger is "tag:[]" and the *)
(* note has no tags (key missing or list empty), or the trigger is "tag:X" *)
(* with X other than "[]" and X one of the note's tags; for every other    *)
(* trigger it is false.                                                    *)
C12_CheckTrigger ==
    probe.called =>
        LET tags == IF "tags" \in DOMAIN probe.note THEN probe.note.tags ELSE <<>>
        IN  probe.ret <=>
               \/ probe.trigger = TagPrefix \o EmptyTagsMarker /\ tags = <<>>
               \/ \E i \in 1..Len(tags) :
                     /\ tags[i] # EmptyTagsMarker
                     /\ probe.trigger = TagPrefix \o tags[i]

(* A note without a tags key satisfied the empty-tag marker. *)
C12_Witness ==
    /\ probe.called
    /\ probe.ret
    /\ "tags" \notin DOMAIN probe.note
    /\ probe.trigger = Trigger(EmptyTagsMarker)

----------------------------------------------------------------------------
(* Properties of ask_question and ask_question_web *)

(* The call that just ended was op, ran its searches and returned. *)
Searched(call, op) == call.op = op /\ call.ask.searched /\ ~call.raised

(* The candidate list: the notes found for the semantic-search ids, then   *)
(* the full-text matches, in their order, whose id is not one of those     *)
(* ids; no id twice; every note of either search that exists is in it.     *)
Candidates(nts, a) ==
    LET semantic == Range(a.similar) \cap DOMAIN nts
        n == Cardinality(semantic)
    IN  /\ \A i, j \in 1..Len(a.relevant) : i # j => a.relevant[i] # a.relevant[j]
        /\ Range(a.relevant) = semantic \cup Range(a.full_text)
        /\ Len(a.relevant) >= n
        /\ {a.relevant[i] : i \in 1..n} = semantic
        /\ SubSeq(a.relevant, n + 1, Len(a.relevant))
               = SelectSeq(a.full_text, LAMBDA i : i \notin Range(a.similar))

C14_NoMatch ==
    (Searched(last, "ask") /\ last.ask.similar = <<>> /\ last.ask.full_text = <<>>) =>
        /\ last.ask.ret = NoMatchResponse
        /\ ~last.ask.generated

(* Both searches returned nothing after a note had been added and deleted. *)
C14_Witness ==
    /\ Searched(last, "ask")
    /\ last.ask.similar = <<>>
    /\ last.ask.full_text = <<>>
    /\ seq > 0
    /\ notes = <<>>

(* C15: an ask_question call whose question is in the cache returns the    *)
(* cached answer without searching or generating, whatever the notes are   *)
(* now; a call whose question is not in the cache runs the searches and    *)
(* caches the answer it returns; nothing else changes the cache, so every  *)
(* later call with the same string returns the answer of the first.        *)
C15_Cache ==
    [][IF last'.op = "ask"
       THEN LET q == last'.ask.question
            IN  IF q \in DOMAIN qa_cache
                THEN /\ ~last'.raised
                     /\ last'.ask.ret = qa_cache[q]
                     /\ ~last'.ask.searched
                     /\ ~last'.ask.generated
                     /\ qa_cache' = qa_cache
                ELSE /\ last'.ask.searched
                     /\ ~last'.ask.cached
                     /\ IF last'.raised
                        THEN qa_cache' = qa_cache
                        ELSE /\ DOMAIN qa_cache' = DOMAIN qa_cache \cup {q}
                             /\ qa_cache'[q] = last'.ask.ret
                             /\ \A p \in DOMAIN qa_cache : qa_cache'[p] = qa_cache[p]
       ELSE qa_cache' = qa_cache
    ]_vars

(* A generated answer was served from the cache after every note it was    *)
(* generated from had been deleted.                                        *)
C15_Witness ==
    /\ last.op = "ask"
    /\ last.ask.cached
    /\ last.ask.ret \notin {NoMatchResponse, "[AI response failed]"}
    /\ notes = <<>>
    /\ Cardinality(DOMAIN qa_cache) = 2

----------------------------------------------------------------------------
(* Properties of the Vector Index *)

(* The entries the index holds for note_id. *)
EntriesOf(idx, note_id) == {i \in 1..Len(idx) : idx[i].id = note_id}

(* C16: add_note_to_index on an id the index already holds an entry for    *)
(* leaves exactly one entry for that id, computed from the new text, and   *)
(* the index marked dirty.                                                 *)
C16_AddOverwrites ==
    [][(/\ last'.op = "index_add"
        /\ ~last'.raised
        /\ EntriesOf(Handle.index, last'.id) # {}) =>
           /\ Cardinality(EntriesOf(index', last'.id)) = 1
           /\ \A i \in EntriesOf(index', last'.id) :
                  index'[i].vec = encode(last'.args.content)
           /\ index_modified'
    ]_vars

(* C19: the handle is loaded once per process, on first use, from the file *)
(* or empty when there is none, without error; a later load_index returns  *)
(* the index held, and no call discards unsaved entries; save_index writes *)
(* the file exactly when a handle is held and dirty, and leaves the flag   *)
(* clear; an add or remove sets the flag; only save_index writes the file. *)
C19_LoadOnceSaveIfDirty ==
    [][/\ last'.op = "load_index" =>
            /\ loaded'
            /\ ~last'.raised
            /\ IF loaded
               THEN index' = index /\ index_modified' = index_modified
               ELSE /\ index' = (IF file.exists THEN file.index ELSE <<>>)
                    /\ ~index_modified'
       /\ (last'.op = "index_add" /\ loaded) =>
            /\ Len(index') >= Len(index)
            /\ \A i \in 1..Len(index) : index'[i] = index[i]
       /\ (last'.op = "index_add" /\ ~last'.raised) => index_modified'
       /\ last'.op = "index_remove" =>
            /\ index_modified'
            /\ loaded => index' = SelectSeq(index, LAMBDA e : e.id # last'.id)
       /\ last'.op = "save_index" =>
            /\ ~index_modified'
            /\ index' = index
            /\ IF loaded /\ index_modified
               THEN file' = [exists |-> TRUE, index |-> index]
               ELSE file' = file
       /\ last'.op # "save_index" => file' = file
    ]_vars

(* A later load_index returned the index held, with entries the file does  *)
(* not have.                                                               *)
C19_Witness ==
    /\ last.op = "load_index"
    /\ loaded
    /\ index_modified
    /\ file.exists
    /\ file.index # <<>>
    /\ Len(index) > Len(file.index)

(* C18: in every state reached by add_note, edit_note and delete_note      *)
(* calls from an empty index, the index holds at most one entry per note   *)
(* id.                                                                     *)
C18_OneEntryPerId ==
    \A note_id \in IndexIds(index) : Cardinality(EntriesOf(index, note_id)) = 1

(* edit_note replaced the content of one of two indexed notes. *)
C18_Witness ==
    /\ Returned(last, "edit")
    /\ last.ret = 1
    /\ "content" \in last.args.keys
    /\ Len(index) = 2
    /\ index[2].id = last.id
    /\ index[2].vec = encode(last.args.content)

(* C20: a CLI command that changed the index has it saved before its       *)
(* process ends: the process that starts next loads from the file exactly  *)
(* the entries the ended process held.                                     *)
C20_SavedBeforeExit ==
    [][last'.op = "exit" =>
          load_index(FALSE, <<>>, FALSE, file').index = Handle.index
    ]_vars

----------------------------------------------------------------------------
(* Properties of the writers *)

(* The external call that raised inside the repository call, if any. *)
FailOf(call) == IF call.at \in {"transcribe", "insert", "embed"} THEN call.at ELSE "none"

(* C17: the notes and the index entries change only as add_note, edit_note *)
(* and delete_note change them: what the add command leaves is what its    *)
(* add_note call leaves, the agent actions it runs writing no note field.  *)
C17_RepositorySoleWriter ==
    [][last'.op = "cli_add" =>
          LET a == last'.args
              out == add_note(notes, seq, Handle.index, Handle.index_modified, now,
                              a.title, a.content, a.tags, a.workspace, a.audio_path,
                              FailOf(last'))
          IN  /\ notes' = out.notes
              /\ AddLoads(out) => index' = out.index
    ]_vars

----------------------------------------------------------------------------
(* Properties of add_mic_voice *)

(* C21: once the stopper thread has cleared the flag, and with the         *)
(* callback delivering buffers, the collection loop is left and the        *)
(* stopper thread joined: the main thread does not wait on the queue for   *)
(* ever, and the stopper ends by returning.                                *)
C21_LoopExits ==
    (mic.stopper \in {"returning", "ended"}) ~> (mic.joined /\ mic.stopper = "ended")

(* The stopper was joined after the loop had collected buffers, with       *)
(* buffers the callback delivered after the stop still in the queue.       *)
C21_Witness ==
    /\ mic.joined
    /\ ~mic.recording
    /\ mic.frames >= 2
    /\ mic.q > 0

====
